---- MODULE Spec2Model ----
(***************************************************************************)
(* The chart legend of chart-components as a state machine.                *)
(*                                                                         *)
(* Two implementations are modelled side by side:                          *)
(*   variant = "grouped" : src/src/internal/components/chart-legend/       *)
(*                         index.tsx (ChartLegend + LegendGroup)           *)
(*   variant = "single"  : src/unnamed/part_000 (ChartLegend, one toolbar) *)
(*                                                                         *)
(* One behaviour step is one browser task: an input event with every       *)
(* handler it runs, the React re-render it causes and the effects of that  *)
(* render; or one timer callback; or the passage of time.  A timer whose   *)
(* delay has elapsed runs before any later input event and before time     *)
(* advances further (the semantics of a test clock).                       *)
(*                                                                         *)
(* Item indices are 0-based as in the source; the item with index i of a   *)
(* sequence q is q[i + 1].                                                 *)
(***************************************************************************)
EXTENDS Integers, Sequences, FiniteSets, TLC

\* ------------------------------------------------------------------ bounds
MaxItems == 3       \* size of the host's series catalogue
TickMs == 25        \* largest step of the clock, in ms

\* ------------------------------------------------------- program constants
TOOLTIP_BLUR_DELAY == 50
HIGHLIGHT_LOST_DELAY == 50
SCROLL_DELAY == 100
SHOULD_STACK_SIZE == 400    \* part_000: borderBoxWidth <= SHOULD_STACK_SIZE
STACK_WIDTH == 400          \* index.tsx: width < 400

VARIABLES
  variant,        \* which implementation is mounted: "grouped" | "single"
  type,           \* prop type
  position,       \* prop position (grouped variant only)
  items,          \* prop items: the host's current list, read-only for the legend
  shouldStack,    \* useState / useContainerQuery: the container is narrow
  width,          \* the container width of the last measurement, in px
  tooltipItemId,  \* useState<string | null>
  timers,         \* the browser's pending setTimeout callbacks
  lockDue,        \* per DebouncedCall: ms until its lock expires (0: not locked)
  selectedIndex,  \* per group: useState<number>(0)
  focusTarget,    \* per group: the provider's focusTarget.current (index, -1: null)
  focus,          \* document.activeElement
  pointer,        \* the element under the pointer
  trace           \* the last step: its event, then the requests, notifications
                  \* and focus moves of its handlers, in order

vars == <<variant, type, position, items, shouldStack, width, tooltipItemId, timers,
          lockDue, selectedIndex, focusTarget, focus, pointer, trace>>

\* ------------------------------------------------------------ value spaces
Null == "null"
IdNames == <<"a", "b", "c", "d", "e", "f">>
ItemIds == {IdNames[k] : k \in 1..MaxItems}
Catalogue == [k \in 1..MaxItems |-> IdNames[k]]

GroupNames == {"default", "opposite"}
Controls == {"highlight", "tooltip", "scroll_default", "scroll_opposite"}
ScrollControl(g) == IF g = "default" THEN "scroll_default" ELSE "scroll_opposite"

\* Elements of the page that can hold focus or be under the pointer.
NoElem == [kind |-> "none", g |-> "-", i |-> 0]          \* body / outside the legend
TipElem == [kind |-> "tooltip", g |-> "-", i |-> 0]      \* inside the tooltip's subtree
ItemElem(g, i) == [kind |-> "item", g |-> g, i |-> i]    \* the button of group g, index i

\* The container widths the measurements report, in px.
Widths == {300, STACK_WIDTH - 1, STACK_WIDTH, STACK_WIDTH + 1, 500}

NarrowestWidth == CHOOSE w \in Widths : \A x \in Widths : w <= x
WidestWidth == CHOOSE w \in Widths : \A x \in Widths : x <= w

Min(a, b) == IF a < b THEN a ELSE b
Max(a, b) == IF a > b THEN a ELSE b

\* items.map((i) => i.id)
MapIds(q) == [k \in 1..Len(q) |-> q[k].id]

\* Array.prototype.findIndex: 0-based, -1 when absent
FindIndex(q, ok(_)) ==
  IF \E k \in 1..Len(q) : ok(q[k])
  THEN (CHOOSE k \in 1..Len(q) : ok(q[k]) /\ \A j \in 1..(k - 1) : ~ok(q[j])) - 1
  ELSE -1

\* Array.prototype.includes
Includes(q, x) == \E k \in 1..Len(q) : q[k] = x

\* --------------------------------------------------- the state as a record
(* Handlers are written as functions from the legend's state to its next   *)
(* state, so that a handler calling another handler is their composition.  *)
(* dirty: a state or prop changed, React re-renders before the step ends;  *)
(* itemsChanged: the items prop is a new array (dependency of the effects).*)
Cur ==
  [variant |-> variant, type |-> type, position |-> position, items |-> items,
   shouldStack |-> shouldStack, width |-> width, tooltipItemId |-> tooltipItemId,
   timers |-> timers, lockDue |-> lockDue, selectedIndex |-> selectedIndex,
   focusTarget |-> focusTarget, focus |-> focus,
   pointer |-> pointer, trace |-> << >>, dirty |-> FALSE, itemsChanged |-> FALSE]

Log(s, ev, arg) == [s EXCEPT !.trace = Append(@, [ev |-> ev, arg |-> arg])]

\* ------------------------------------------------------- DebouncedCall
(* ../../utils/utils is not among the sources; modelled from its contract: *)
(* call(action, delayMs = 0) schedules the action after delayMs and        *)
(* cancels the action scheduled before; cancelPrevious() drops the pending *)
(* action; lock(ms) locks the instance until now + ms, and a call issued   *)
(* while locked is dropped entirely.                                       *)
(* A timer is the closure it runs (act and the values it captured: an     *)
(* item id, an item index), its owner ctl, the ms left until it is due,    *)
(* and ref: the owner's timeoutRef points to it.                           *)
Closure(act, id, idx) == [act |-> act, id |-> id, idx |-> idx]

Timer(ctl, cl, due) ==
  [ctl |-> ctl, act |-> cl.act, id |-> cl.id, idx |-> cl.idx, due |-> due, ref |-> TRUE]

Pending(s, ctl) == {t \in s.timers : t.ctl = ctl /\ t.ref}

IsLocked(s, ctl) == s.lockDue[ctl] > 0

cancelPrevious(s, ctl) == [s EXCEPT !.timers = @ \ Pending(s, ctl)]

call(s, ctl, cl, delay) ==
  IF IsLocked(s, ctl) THEN s
  ELSE [cancelPrevious(s, ctl) EXCEPT !.timers = @ \cup {Timer(ctl, cl, delay)}]

lock(s, ctl, ms) == [s EXCEPT !.lockDue[ctl] = ms]

\* ------------------------------------------------------ items and groups
\* Faulty variant of defaultItems: the default group is not filtered.
defaultItemsFaulty(s) == s.items

\* index.tsx 72-79: defaultItems / oppositeItems
defaultItems(s) ==
  IF s.type = "single" THEN s.items
  ELSE SelectSeq(s.items, LAMBDA it : ~it.oppositeAxis)

oppositeItems(s) ==
  IF s.type = "single" THEN << >>
  ELSE SelectSeq(s.items, LAMBDA it : it.oppositeAxis)

\* part_000 66-79: filteredItems
filteredItems(s) ==
  CASE s.type \in {"bottom", "stacked"} -> s.items
    [] s.type \in {"bottom-left", "stacked-top"} ->
         SelectSeq(s.items, LAMBDA it : ~it.oppositeAxis)
    [] s.type \in {"bottom-right", "stacked-bottom"} ->
         SelectSeq(s.items, LAMBDA it : it.oppositeAxis)
    [] OTHER -> s.items

\* The items prop of the toolbar g.
GroupItems(s, g) ==
  IF s.variant = "single"
  THEN (IF g = "default" THEN filteredItems(s) ELSE << >>)
  ELSE (IF g = "default" THEN defaultItems(s) ELSE oppositeItems(s))

\* index.tsx 179-254: which LegendGroup elements the render returns.
RenderedGroups(s) ==
  IF s.variant = "single" THEN {"default"}
  ELSE {"default"} \cup (IF oppositeItems(s) # << >> THEN {"opposite"} ELSE {})

\* index.tsx 179-254: the element type at the root's first child decides
\* whether React keeps or remounts the groups below it.
TreeShape(s) ==
  IF s.variant = "single" THEN "toolbar"
  ELSE IF s.position = "bottom"
       THEN (IF oppositeItems(s) = << >> THEN "group"
             ELSE IF s.shouldStack THEN "fragment" ELSE "div")
       ELSE "fragment"

\* The legend is asked for its groups (index.tsx) or its toolbar among two
\* (part_000: isDual && isBottom) in a row along the bottom.
IsBottomDual(s) ==
  IF s.variant = "single" THEN s.type \in {"bottom-left", "bottom-right"}
  ELSE s.position = "bottom" /\ oppositeItems(s) # << >>

\* The items are laid out as a column: position "side" of LegendGroup
\* (index.tsx 179-254), isStacked (part_000 248).
isStacked(s) ==
  IF s.variant = "single" THEN s.type \in {"stacked", "stacked-top", "stacked-bottom"} \/ s.shouldStack
  ELSE IF s.position = "bottom"
       THEN oppositeItems(s) # << >> /\ s.shouldStack
       ELSE TRUE

\* Faulty variant of GroupPosition: a narrow container stacks every bottom legend.
GroupPositionFaulty(s, g) ==
  IF s.variant = "single" THEN (IF isStacked(s) THEN "side" ELSE "bottom")
  ELSE IF s.position = "bottom"
       THEN (IF s.shouldStack THEN "side"
             ELSE IF oppositeItems(s) = << >> THEN "bottom"
             ELSE IF g = "default" THEN "bottom-default" ELSE "bottom-opposite")
       ELSE "side"

\* index.tsx 179-254: the position prop of the LegendGroup g;
\* part_000 246-249, 277-281: the list is styled list-side or list-bottom.
GroupPosition(s, g) ==
  IF s.variant = "single" THEN (IF isStacked(s) THEN "side" ELSE "bottom")
  ELSE IF s.position = "bottom"
       THEN (IF oppositeItems(s) = << >> THEN "bottom"
             ELSE IF s.shouldStack THEN "side"
             ELSE IF g = "default" THEN "bottom-default" ELSE "bottom-opposite")
       ELSE "side"

\* The rendered layout: the groups and the position of each.
Layout(s) == [g \in RenderedGroups(s) |-> GroupPosition(s, g)]

\* index.tsx 67, part_000 255
tooltipPosition(s) ==
  IF s.variant = "single" THEN (IF isStacked(s) THEN "left" ELSE "bottom")
  ELSE (IF s.position = "bottom" THEN "bottom" ELSE "left")

\* The items the legend looks an id up in: items (index.tsx 68, 127),
\* filteredItems (part_000 141, 252).
LookupItems(s) == IF s.variant = "single" THEN filteredItems(s) ELSE s.items

\* items.find((item) => item.id === itemId): its 0-based index, -1 for undefined
FindById(q, id) == FindIndex(q, LAMBDA it : it.id = id)

\* thisTriggerRef (index.tsx 438-446, part_000 321-329): after a render the
\* registries hold exactly the buttons of the rendered items.
elementsByIndex(s, g) ==
  IF g \in RenderedGroups(s) THEN 0..(Len(GroupItems(s, g)) - 1) ELSE {}

elementsById(s, id) ==
  LET hits == {e \in {ItemElem(g, i) : g \in GroupNames, i \in 0..(MaxItems - 1)} :
                 /\ e.i \in elementsByIndex(s, e.g)
                 /\ GroupItems(s, e.g)[e.i + 1].id = id}
  IN IF hits = {} THEN NoElem ELSE CHOOSE e \in hits : TRUE

\* data-itemid of a rendered button
ItemIdOf(s, e) == GroupItems(s, e.g)[e.i + 1].id

IsMounted(s, e) == e.kind # "item" \/ e.i \in elementsByIndex(s, e.g)

\* pages/03-core 244-248: CoreLegend returns null for an empty list and the
\* legend otherwise: the toolbars it puts in the DOM.
CoreLegend(s) == IF Len(s.items) = 0 THEN {} ELSE RenderedGroups(s)

\* ------------------------------------------------------------- React state
setTooltipItemId(s, v) ==
  IF s.tooltipItemId = v THEN s ELSE [s EXCEPT !.tooltipItemId = v, !.dirty = TRUE]

\* Faulty variant of setSelectedIndex: one selected index shared by the groups.
setSelectedIndexShared(s, g, v) ==
  IF \A x \in GroupNames : s.selectedIndex[x] = v THEN s
  ELSE [s EXCEPT !.selectedIndex = [x \in GroupNames |-> v], !.dirty = TRUE]

\* index.tsx 327, part_000 63: const [selectedIndex, setSelectedIndex] = useState(0)
setSelectedIndex(s, g, v) ==
  IF s.selectedIndex[g] = v THEN s ELSE [s EXCEPT !.selectedIndex[g] = v, !.dirty = TRUE]

\* index.tsx 103 setShouldStack(width < 400); part_000 56 useContainerQuery
setShouldStack(s, v) ==
  IF s.shouldStack = v THEN s ELSE [s EXCEPT !.shouldStack = v, !.dirty = TRUE]

\* --------------------------------------------------------------- tooltip
\* index.tsx 68-70, part_000 252-254
tooltipTarget(s) ==
  LET k == FindById(LookupItems(s), s.tooltipItemId)
  IN IF k < 0 THEN Null ELSE LookupItems(s)[k + 1].id

\* The host's resolver (pages/03-core 186-220 returns content for every item;
\* CoreLegend 257 maps a missing resolver to null): null for NoContentIds.
NoContentIds == {IdNames[MaxItems]}
getTooltipContent(id) == IF id \in NoContentIds THEN Null ELSE id

\* Faulty variant of tooltipContent: the resolver's null is not honoured.
tooltipContentFaulty(s) == tooltipTarget(s)

\* index.tsx 68-70: tooltipContent = tooltipTarget && getTooltipContent(...)
tooltipContent(s) ==
  IF tooltipTarget(s) = Null THEN Null ELSE getTooltipContent(tooltipTarget(s))

\* Faulty variant of RenderedTooltips: a second tooltip for the hovered item.
RenderedTooltipsFaulty(s) ==
  (IF tooltipContent(s) = Null THEN {} ELSE {tooltipTarget(s)})
  \cup (IF s.pointer.kind = "item" /\ getTooltipContent(ItemIdOf(s, s.pointer)) # Null
        THEN {ItemIdOf(s, s.pointer)} ELSE {})

\* index.tsx 255-278, part_000 352-375:
\* {tooltipContent && <InternalChartTooltip .../>}: the tooltips in the DOM
RenderedTooltips(s) ==
  IF tooltipContent(s) = Null THEN {} ELSE {tooltipTarget(s)}

\* index.tsx 58: tooltipRef is created and handed to the groups, but no
\* element is ever given it as ref, so tooltipRef.current stays null.
tooltipRefCurrent(s) == Null

\* Faulty variant of onShowTooltip: sets the state without the debounce control.
onShowTooltipFaulty(s, itemId) ==
  setTooltipItemId(Log(s, "showTooltip", <<itemId>>), itemId)

\* index.tsx 84-86, part_000 84-86
onShowTooltip(s, itemId) ==
  call(Log(s, "showTooltip", <<itemId>>), "tooltip", Closure("show", itemId, 0), 0)

\* index.tsx 87-92, part_000 87-92
onHideTooltip(s, lk) ==
  LET s1 == call(Log(s, IF lk THEN "hideTooltipLocked" ELSE "hideTooltip", << >>),
                 "tooltip", Closure("hide", Null, 0), TOOLTIP_BLUR_DELAY)
  IN IF lk THEN lock(s1, "tooltip", TOOLTIP_BLUR_DELAY) ELSE s1

\* ------------------------------------------------------------- highlight
\* Faulty variant of onShowHighlight: the visible flag is not looked at.
onShowHighlightFaulty(s, itemId) ==
  IF FindById(LookupItems(s), itemId) >= 0
  THEN Log(cancelPrevious(s, "highlight"), "onItemHighlightEnter", <<itemId>>)
  ELSE s

\* index.tsx 126-132, part_000 140-146
onShowHighlight(s, itemId) ==
  LET k == FindById(LookupItems(s), itemId)
  IN IF k >= 0 /\ LookupItems(s)[k + 1].visible
     THEN Log(cancelPrevious(s, "highlight"), "onItemHighlightEnter", <<itemId>>)
     ELSE s

\* Faulty variant of clearHighlight: a bare timeout, the earlier one kept.
clearHighlightFaulty(s) ==
  [Log(s, "clearHighlight", << >>) EXCEPT
     !.timers = @ \cup {Timer("highlight", Closure("exit", Null, 0), HIGHLIGHT_LOST_DELAY)}]

\* index.tsx 362-364, part_000 147-149
clearHighlight(s) ==
  call(Log(s, "clearHighlight", << >>), "highlight", Closure("exit", Null, 0),
       HIGHLIGHT_LOST_DELAY)

\* ------------------------------------------------------------ visibility
\* items.filter((i) => i.visible).map((i) => i.id)
VisibleIds(s) == MapIds(SelectSeq(s.items, LAMBDA it : it.visible))

\* Faulty variant of onToggleItem: adding an item forgets the visible ones.
onToggleItemFaulty(s, itemId) ==
  LET visibleItems == VisibleIds(s)
      s1 == IF Includes(visibleItems, itemId)
            THEN Log(s, "onItemVisibilityChange",
                     SelectSeq(visibleItems, LAMBDA v : v # itemId))
            ELSE Log(s, "onItemVisibilityChange", <<itemId>>)
  IN Log(s1, "onItemHighlightExit", << >>)

\* Faulty variant of onToggleItem: hiding an item hides the items listed after it too.
onToggleItemTruncating(s, itemId) ==
  LET visibleItems == VisibleIds(s)
      at == CHOOSE k \in 1..Len(visibleItems) : visibleItems[k] = itemId
      s1 == IF Includes(visibleItems, itemId)
            THEN Log(s, "onItemVisibilityChange", SubSeq(visibleItems, 1, at - 1))
            ELSE Log(s, "onItemVisibilityChange", Append(visibleItems, itemId))
  IN Log(s1, "onItemHighlightExit", << >>)

\* Faulty variant of onToggleItem: the highlight is cleared through the debounce.
onToggleItemDebounced(s, itemId) ==
  LET visibleItems == VisibleIds(s)
      s1 == IF Includes(visibleItems, itemId)
            THEN Log(s, "onItemVisibilityChange",
                     SelectSeq(visibleItems, LAMBDA v : v # itemId))
            ELSE Log(s, "onItemVisibilityChange", Append(visibleItems, itemId))
  IN clearHighlight(s1)

\* index.tsx 134-143, part_000 224-233
onToggleItem(s, itemId) ==
  LET visibleItems == VisibleIds(s)
      s1 == IF Includes(visibleItems, itemId)
            THEN Log(s, "onItemVisibilityChange",
                     SelectSeq(visibleItems, LAMBDA v : v # itemId))
            ELSE Log(s, "onItemVisibilityChange", Append(visibleItems, itemId))
  IN Log(s1, "onItemHighlightExit", << >>)

\* Faulty variant of onSelectItem: resets to all items whenever the item is visible.
onSelectItemFaulty(s, itemId) ==
  LET visibleItems == VisibleIds(s)
      s1 == IF Includes(visibleItems, itemId)
            THEN Log(s, "onItemVisibilityChange", MapIds(s.items))
            ELSE Log(s, "onItemVisibilityChange", <<itemId>>)
  IN Log(s1, "onItemHighlightExit", << >>)

\* index.tsx 145-154, part_000 235-244
onSelectItem(s, itemId) ==
  LET visibleItems == VisibleIds(s)
      s1 == IF Len(visibleItems) = 1 /\ visibleItems[1] = itemId
            THEN Log(s, "onItemVisibilityChange", MapIds(s.items))
            ELSE Log(s, "onItemVisibilityChange", <<itemId>>)
  IN Log(s1, "onItemHighlightExit", << >>)

\* index.tsx 430-436, part_000 335-341
onClick(s, itemId, modifier) ==
  IF modifier THEN onToggleItem(s, itemId) ELSE onSelectItem(s, itemId)

\* ------------------------------------------------------ roving tab stop
\* Faulty variant of getNextFocusTarget: the first button, whatever is highlighted.
getNextFocusTargetFaulty(s, g) ==
  IF Len(GroupItems(s, g)) > 0 THEN 0 ELSE -1

\* Faulty variant of getNextFocusTarget: the index is not looked up among the buttons.
getNextFocusTargetUnchecked(s, g) ==
  LET highlightedIndex == FindIndex(GroupItems(s, g), LAMBDA it : it.highlighted)
  IN IF s.variant = "single" THEN s.selectedIndex[g]
     ELSE (IF highlightedIndex >= 0 THEN highlightedIndex ELSE 0)

\* index.tsx 462-469: buttons[highlightedIndex] ?? buttons[0]
\* part_000 201-207:  buttons[selectedIndex] ?? null
getNextFocusTarget(s, g) ==
  LET n == Len(GroupItems(s, g))
      highlightedIndex == FindIndex(GroupItems(s, g), LAMBDA it : it.highlighted)
  IN IF s.variant = "single"
     THEN (IF s.selectedIndex[g] < n THEN s.selectedIndex[g] ELSE -1)
     ELSE (IF highlightedIndex >= 0 THEN highlightedIndex
           ELSE IF n > 0 THEN 0 ELSE -1)

\* navigationAPI.current.updateFocusTarget() of the toolkit's provider:
\* focusTarget.current = getNextFocusTarget(), then tabIndex 0 for that
\* element and -1 for every other registered one.
updateFocusTarget(s, g) == [s EXCEPT !.focusTarget[g] = getNextFocusTarget(s, g)]

\* The tabindex attribute the provider gives the button i of group g.
TabIndex(g, i) == IF focusTarget[g] = i THEN 0 ELSE -1

\* index.tsx 366-371, part_000 153-158.  setSelectedIndex takes effect at
\* the re-render, so the updateFocusTarget of the handler still reads the
\* selectedIndex of the last render.
onFocus(s, g, index, itemId) ==
  LET s1 == updateFocusTarget(s, g)
      s2 == setSelectedIndex(s1, g, index)
      s3 == onShowHighlight(s2, itemId)
  IN onShowTooltip(s3, itemId)

\* index.tsx 373-380, part_000 160-168
onBlur(s, g, relatedTarget) ==
  LET s1 == updateFocusTarget(s, g)
  IN IF /\ tooltipRefCurrent(s) # Null
        /\ relatedTarget # NoElem
        /\ relatedTarget.kind # "tooltip"
     THEN onHideTooltip(clearHighlight(s1), FALSE)
     ELSE s1

\* HTMLElement.focus() and the user's own focus moves: the element losing
\* focus gets blur (relatedTarget: the destination), then the destination
\* gets focus.  Focusing the focused element dispatches nothing.
FocusDom(s, e) ==
  IF e = s.focus THEN s
  ELSE LET s1 == CASE s.focus.kind = "item" -> onBlur(s, s.focus.g, e)
                   [] s.focus.kind = "tooltip" -> onHideTooltip(s, FALSE)
                   [] OTHER -> s
           s2 == Log([s1 EXCEPT !.focus = e], "focus",
                     IF e.kind = "item" THEN <<ItemIdOf(s, e)>> ELSE << >>)
       IN IF e.kind = "item" THEN onFocus(s2, e.g, e.i, ItemIdOf(s, e)) ELSE s2

\* Faulty variant of focusElement: a missing element takes focus away.
focusElementFaulty(s, g, index) ==
  IF index \in elementsByIndex(s, g) THEN FocusDom(s, ItemElem(g, index))
  ELSE [s EXCEPT !.focus = NoElem]

\* index.tsx 382-384, part_000 170-172
focusElement(s, g, index) ==
  IF index \in elementsByIndex(s, g) THEN FocusDom(s, ItemElem(g, index)) ELSE s

\* --------------------------------------------------------------- keyboard
\* circleIndex of the component toolkit: wrap-around inside [from, to]
circleIndex(index, range) ==
  IF index < range[1] THEN range[2]
  ELSE IF index > range[2] THEN range[1]
  ELSE index

NavKeys == {"ArrowRight", "ArrowLeft", "ArrowUp", "ArrowDown", "Home", "End", "Escape"}
Keys == NavKeys \cup {"Enter"}

\* handleKey of the component toolkit, for a left-to-right document
handleKey(key) ==
  CASE key = "ArrowLeft" -> "onInlineStart"
    [] key = "ArrowRight" -> "onInlineEnd"
    [] key = "ArrowUp" -> "onBlockStart"
    [] key = "ArrowDown" -> "onBlockEnd"
    [] key = "Home" -> "onHome"
    [] key = "End" -> "onEnd"
    [] key = "Escape" -> "onEscape"
    [] OTHER -> "onDefault"

\* Faulty variant of onKeyDown: the default action of every key is prevented.
onKeyDownGreedy(s, g, key) ==
  LET s1 == Log(s, "preventDefault", << >>)
      n == Len(GroupItems(s, g))
      range == <<0, n - 1>>
      sel == s.selectedIndex[g]
      cb == handleKey(key)
  IN CASE cb \in {"onInlineStart", "onBlockStart"} ->
            focusElement(s1, g, circleIndex(sel - 1, range))
       [] cb \in {"onInlineEnd", "onBlockEnd"} ->
            focusElement(s1, g, circleIndex(sel + 1, range))
       [] cb = "onHome" -> focusElement(s1, g, 0)
       [] cb = "onEnd" -> focusElement(s1, g, n - 1)
       [] cb = "onEscape" -> Log(s1, "onItemHighlightExit", << >>)
       [] OTHER -> s1

\* Faulty variant of onKeyDown: the index stops at the ends of the range.
onKeyDownFaulty(s, g, key) ==
  IF key \in NavKeys
  THEN LET s1 == Log(s, "preventDefault", << >>)
           n == Len(GroupItems(s, g))
           sel == s.selectedIndex[g]
           cb == handleKey(key)
       IN CASE cb \in {"onInlineStart", "onBlockStart"} ->
                 focusElement(s1, g, Max(sel - 1, 0))
            [] cb \in {"onInlineEnd", "onBlockEnd"} ->
                 focusElement(s1, g, Min(sel + 1, n - 1))
            [] cb = "onHome" -> focusElement(s1, g, 0)
            [] cb = "onEnd" -> focusElement(s1, g, n - 1)
            [] cb = "onEscape" -> Log(s1, "onItemHighlightExit", << >>)
            [] OTHER -> s1
  ELSE s

\* index.tsx 386-411, part_000 174-199
onKeyDown(s, g, key) ==
  IF key \in NavKeys
  THEN LET s1 == Log(s, "preventDefault", << >>)
           n == Len(GroupItems(s, g))
           range == <<0, n - 1>>
           sel == s.selectedIndex[g]
           cb == handleKey(key)
       IN CASE cb \in {"onInlineStart", "onBlockStart"} ->
                 focusElement(s1, g, circleIndex(sel - 1, range))
            [] cb \in {"onInlineEnd", "onBlockEnd"} ->
                 focusElement(s1, g, circleIndex(sel + 1, range))
            [] cb = "onHome" -> focusElement(s1, g, 0)
            [] cb = "onEnd" -> focusElement(s1, g, n - 1)
            [] cb = "onEscape" -> Log(s1, "onItemHighlightExit", << >>)
            [] OTHER -> s1
  ELSE s

\* Faulty variant of onDocumentKeyDown: hides without the lock.
onDocumentKeyDownFaulty(s, key) ==
  IF s.tooltipItemId # Null /\ key = "Escape"
  THEN LET s1 == onHideTooltip(s, FALSE)
           e == elementsById(s1, s.tooltipItemId)
       IN IF e # NoElem THEN FocusDom(s1, e) ELSE s1
  ELSE s

\* index.tsx 110-124, part_000 96-110: installed while tooltipItemId is set
onDocumentKeyDown(s, key) ==
  IF s.tooltipItemId # Null /\ key = "Escape"
  THEN LET s1 == onHideTooltip(s, TRUE)
           e == elementsById(s1, s.tooltipItemId)
       IN IF e # NoElem THEN FocusDom(s1, e) ELSE s1
  ELSE s

\* Faulty variant of KeyDownEvent: the document listener is not capturing,
\* it runs after the handler of the button.
KeyDownEventBubbling(s, key) ==
  LET s1 == IF s.focus.kind = "item" THEN onKeyDown(s, s.focus.g, key) ELSE s
  IN onDocumentKeyDown(s1, key)

\* A keydown event: the capturing document listener, then the handler of
\* the button the event was dispatched to.
KeyDownEvent(s, key) ==
  LET s1 == onDocumentKeyDown(s, key)
  IN IF s.focus.kind = "item" THEN onKeyDown(s1, s.focus.g, key) ELSE s1

\* ---------------------------------------------------------------- pointer
\* index.tsx 416-419, part_000 305-308
onMouseEnter(s, itemId) == onShowTooltip(onShowHighlight(s, itemId), itemId)

\* Faulty variant of onMouseLeave: the tooltip is hidden at once, not debounced.
onMouseLeaveFaulty(s) ==
  setTooltipItemId(Log(clearHighlight(s), "hideTooltip", << >>), Null)

\* index.tsx 420-423, part_000 309-312
onMouseLeave(s) == onHideTooltip(clearHighlight(s), FALSE)

\* index.tsx 260-262, part_000 361-363: the tooltip's own handlers
onTooltipMouseEnter(s) == onShowTooltip(s, tooltipTarget(s))
onTooltipMouseLeave(s) == onHideTooltip(s, FALSE)

\* The pointer goes from the element under it to e: mouseleave, mouseenter.
PointerDom(s, e) ==
  LET s1 == CASE s.pointer.kind = "item" -> onMouseLeave(s)
              [] s.pointer.kind = "tooltip" -> onTooltipMouseLeave(s)
              [] OTHER -> s
      s2 == [s1 EXCEPT !.pointer = e]
  IN CASE e.kind = "item" -> onMouseEnter(s2, ItemIdOf(s, e))
       [] e.kind = "tooltip" -> onTooltipMouseEnter(s2)
       [] OTHER -> s2

\* index.tsx 494-495, part_000 268-269: isMouseInContainer.current
isMouseInContainer(s, g) == s.pointer.kind = "item" /\ s.pointer.g = g

\* ----------------------------------------------------------------- timers
\* index.tsx 344: scrollableContainerRef?.current ?? containerRef.current.
\* The groups of position "side" are given the root's containerRef
\* (index.tsx 195, 206, 237, 248); the others, and part_000 123, scroll
\* their own list.
scrollableContainer(s, g) ==
  IF s.variant = "grouped" /\ TreeShape(s) = "fragment" THEN "root" ELSE g

\* The element e lies inside the container c: every button lies inside the
\* root (index.tsx 172-279) and inside the list of its own group.
IsInside(e, c) == e.kind = "item" /\ (c = "root" \/ e.g = c)

\* index.tsx 340-358 (by id), part_000 119-137 (by index): the scroll
\* callback; isVisible is the geometry of the page at that moment.
scrollIntoView(s, g, cl, isVisible) ==
  LET element == IF s.variant = "single"
                 THEN (IF cl.idx \in elementsByIndex(s, g) THEN ItemElem(g, cl.idx) ELSE NoElem)
                 ELSE elementsById(s, cl.id)
      \* the callback of a removed group reads the refs of that instance:
      \* a mouse flag that was false, the container of the root
      mouseIn == cl.ref /\ isMouseInContainer(s, g)
      container == ~cl.ref \/ g \in RenderedGroups(s)
  IN IF mouseIn THEN s
     ELSE IF ~container \/ element = NoElem THEN s
     ELSE IF ~isVisible THEN Log(s, "scrollTo", <<ItemIdOf(s, element)>>)
     ELSE s

\* A due setTimeout callback runs.
RunTimer(s, t, isVisible) ==
  LET s1 == [s EXCEPT !.timers = @ \ {t}]
  IN CASE t.act = "show" -> setTooltipItemId(Log(s1, "setTooltipItemId", <<t.id>>), t.id)
       [] t.act = "hide" -> setTooltipItemId(Log(s1, "setTooltipItemId", << >>), Null)
       [] t.act = "exit" -> Log(s1, "onItemHighlightExit", << >>)
       [] t.act = "scroll" ->
            scrollIntoView(s1, IF t.ctl = "scroll_default" THEN "default" ELSE "opposite",
                           t, isVisible)
       [] t.act = "scroll_void" -> s1

\* ----------------------------------------------------------------- render
\* The LegendGroup instance of g survives the render from prev to s.
Alive(prev, s, g) ==
  /\ g \in RenderedGroups(prev)
  /\ g \in RenderedGroups(s)
  /\ TreeShape(prev) = TreeShape(s)

\* index.tsx 335-360, part_000 114-138: the effect that schedules the scroll
scrollEffect(s, g) ==
  LET h == FindIndex(GroupItems(s, g), LAMBDA it : it.highlighted)
  IN IF h = -1 THEN s
     ELSE call(s, ScrollControl(g), Closure("scroll", GroupItems(s, g)[h + 1].id, h),
               SCROLL_DELAY)

\* The effects of one render of group g (index.tsx 330-360, part_000 114-138, 220-222)
GroupEffects(s, g, runScroll) ==
  IF g \notin RenderedGroups(s) THEN [s EXCEPT !.focusTarget[g] = -1]
  ELSE LET s1 == updateFocusTarget(s, g)
       IN IF runScroll THEN scrollEffect(s1, g) ELSE s1

\* Faulty variant of onUnregisterActive: the item ids are not compared.
onUnregisterActiveFaulty(s, g, removedItemId) ==
  LET target == s.focusTarget[g]
  IN IF target >= 0 THEN FocusDom(s, ItemElem(g, target)) ELSE s

\* index.tsx 471-479, part_000 209-218
onUnregisterActive(s, g, removedItemId) ==
  LET target == s.focusTarget[g]
  IN IF target >= 0 /\ ItemIdOf(s, ItemElem(g, target)) # removedItemId
     THEN FocusDom(s, ItemElem(g, target))
     ELSE s

\* The group whose scrollIntoViewControl owns the timer t.
TimerGroup(t) == IF t.ctl = "scroll_default" THEN "default" ELSE "opposite"

(* The scroll timer t of a LegendGroup instance that the render removes:   *)
(* nothing cancels it (index.tsx 335-360 returns no cleanup).  Its         *)
(* callback keeps the refs of the removed instance: isMouseInContainer     *)
(* stays as it was, containerRef.current becomes null, and                 *)
(* scrollableContainerRef, passed to the groups of position "side", still  *)
(* points to the root.  Only with the latter and a false mouse flag can    *)
(* the callback get past its early returns.                                *)
Orphan(prev, t) ==
  IF TreeShape(prev) = "fragment" /\ ~isMouseInContainer(prev, TimerGroup(t))
  THEN [t EXCEPT !.ref = FALSE]
  ELSE [t EXCEPT !.ref = FALSE, !.act = "scroll_void"]

(* One React render and commit.  prev is the state of the last render.    *)
(* Buttons are keyed by index: a button survives while its group instance *)
(* survives and its index is inside the list.  A removed element loses    *)
(* focus and pointer without blur or mouseleave.  The provider reports    *)
(* the unregistered focused button after the effects have run.            *)
RenderOnce(prev, s) ==
  LET alive == [g \in GroupNames |-> Alive(prev, s, g)]
      gone(e) == e.kind = "item" /\ ~(alive[e.g] /\ e.i < Len(GroupItems(s, e.g)))
      tipGone(e) == e.kind = "tooltip" /\ RenderedTooltips(s) = {}
      lostFocus == gone(s.focus)
      removedItemId == IF lostFocus
                       THEN GroupItems(prev, s.focus.g)[s.focus.i + 1].id ELSE Null
      s1 == [s EXCEPT
               !.selectedIndex = [g \in GroupNames |-> IF alive[g] THEN @[g] ELSE 0],
               !.timers = {IF t.act = "scroll" /\ t.ref /\ ~alive[TimerGroup(t)]
                           THEN Orphan(prev, t) ELSE t : t \in @},
               !.focus = IF gone(@) \/ tipGone(@) THEN NoElem ELSE @,
               !.pointer = IF gone(@) \/ tipGone(@) THEN NoElem ELSE @,
               !.dirty = FALSE,
               !.itemsChanged = FALSE]
      s2 == GroupEffects(s1, "default", s.itemsChanged \/ ~alive["default"])
      s3 == GroupEffects(s2, "opposite", s.itemsChanged \/ ~alive["opposite"])
  IN IF lostFocus /\ alive[s.focus.g]
     THEN onUnregisterActive(s3, s.focus.g, removedItemId)
     ELSE s3

\* Re-render until no state update is pending.
RECURSIVE Settle(_, _)
Settle(prev, s) ==
  IF s.dirty THEN LET r == RenderOnce(prev, s) IN Settle(r, r) ELSE s

Commit(n) ==
  /\ variant' = n.variant
  /\ type' = n.type
  /\ position' = n.position
  /\ items' = n.items
  /\ shouldStack' = n.shouldStack
  /\ width' = n.width
  /\ tooltipItemId' = n.tooltipItemId
  /\ timers' = n.timers
  /\ lockDue' = n.lockDue
  /\ selectedIndex' = n.selectedIndex
  /\ focusTarget' = n.focusTarget
  /\ focus' = n.focus
  /\ pointer' = n.pointer
  /\ trace' = n.trace

\* One task: the handlers, then the renders they cause.
Step(n) == Commit(Settle(Cur, n))

\* The state at the start of a task: the trace opens with the event.
Start(ev, arg) == Log(Cur, ev, arg)

\* How the trace names an element.
ElemName(e) == IF e.kind = "item" THEN ItemIdOf(Cur, e) ELSE e.kind

NoTimerDue == \A t \in timers : t.due > 0

\* ------------------------------------------------------------------ mount
\* The host's series: the catalogue entry k lies on the opposite axis iff k is even.
Item(id, vis, hl, opp) == [id |-> id, visible |-> vis, highlighted |-> hl, oppositeAxis |-> opp]
CatalogueItem(k) == Item(IdNames[k], TRUE, FALSE, k % 2 = 0)
CatalogueIndex(id) == CHOOSE k \in 1..MaxItems : IdNames[k] = id
AllItems == [k \in 1..MaxItems |-> CatalogueItem(k)]

\* The state after the first render and its effects.
Mounted(v, ty, pos, its) ==
  LET s0 == [variant |-> v, type |-> ty, position |-> pos, items |-> its,
             shouldStack |-> FALSE, width |-> WidestWidth, tooltipItemId |-> Null,
             timers |-> {},
             lockDue |-> [c \in Controls |-> 0],
             selectedIndex |-> [g \in GroupNames |-> 0],
             focusTarget |-> [g \in GroupNames |-> -1],
             focus |-> NoElem, pointer |-> NoElem, trace |-> << >>,
             dirty |-> FALSE, itemsChanged |-> FALSE]
  IN GroupEffects(GroupEffects(s0, "default", TRUE), "opposite", TRUE)

InitFrom(n) ==
  /\ variant = n.variant
  /\ type = n.type
  /\ position = n.position
  /\ items = n.items
  /\ shouldStack = n.shouldStack
  /\ width = n.width
  /\ tooltipItemId = n.tooltipItemId
  /\ timers = n.timers
  /\ lockDue = n.lockDue
  /\ selectedIndex = n.selectedIndex
  /\ focusTarget = n.focusTarget
  /\ focus = n.focus
  /\ pointer = n.pointer
  /\ trace = <<[ev |-> "Mount", arg |-> << >>]>>

\* The buttons in the DOM.
Buttons == {ItemElem(g, i) : g \in GroupNames, i \in 0..(MaxItems - 1)}
MountedButtons == {e \in Buttons : e.i \in elementsByIndex(Cur, e.g)}

\* ---------------------------------------------------------------- actions
\* The user moves keyboard focus (Tab, a click, a tap) to a button, into
\* the tooltip, or out of the legend.
UserFocus(e) ==
  /\ NoTimerDue
  /\ e # focus
  /\ e \in MountedButtons \cup {NoElem} \cup (IF RenderedTooltips(Cur) # {} THEN {TipElem} ELSE {})
  /\ Step(FocusDom(Start("UserFocus", <<ElemName(e)>>), e))

\* The pointer moves onto a button, onto the tooltip, or off the legend.
PointerMove(e) ==
  /\ NoTimerDue
  /\ e # pointer
  /\ e \in MountedButtons \cup {NoElem} \cup (IF RenderedTooltips(Cur) # {} THEN {TipElem} ELSE {})
  /\ Step(PointerDom(Start("PointerMove", <<ElemName(e)>>), e))

\* A key is pressed; the event goes to the focused element.
KeyDown(key) ==
  /\ NoTimerDue
  /\ key \in Keys
  /\ Step(KeyDownEvent(Start("KeyDown", <<key>>), key))

\* A button is activated (click, tap, Enter or Space), with or without meta/ctrl.
Click(e, modifier) ==
  /\ NoTimerDue
  /\ e \in MountedButtons
  /\ Step(onClick(Start("Click", <<ItemIdOf(Cur, e), IF modifier THEN "meta" ELSE "plain">>),
                  ItemIdOf(Cur, e), modifier))

\* A timer whose delay has elapsed runs.
FireTimer(t, isVisible) ==
  /\ t \in timers
  /\ t.due = 0
  /\ isVisible \/ t.act = "scroll"
  /\ Step(RunTimer(Start("Timer", <<t.act>>), t, isVisible))

\* Time passes, up to the next instant at which a timer or a lock is due.
Tick ==
  LET dues == {t.due : t \in timers} \cup {lockDue[c] : c \in {c \in Controls : lockDue[c] > 0}}
      d == CHOOSE d \in 1..TickMs : (d = TickMs \/ d \in dues) /\ \A x \in dues : d <= x
  IN /\ NoTimerDue
     /\ dues # {}
     /\ timers' = {[t EXCEPT !.due = @ - d] : t \in timers}
     /\ lockDue' = [c \in Controls |-> Max(0, lockDue[c] - d)]
     /\ trace' = <<[ev |-> "Tick", arg |-> << >>]>>
     /\ UNCHANGED <<variant, type, position, items, shouldStack, width, tooltipItemId,
                    selectedIndex, focusTarget, focus, pointer>>

\* The container was measured at w px: the ResizeObserver callback
\* (index.tsx 100-105), the useContainerQuery mapper (part_000 56).
measure(s, w) ==
  setShouldStack([s EXCEPT !.width = w],
                 IF s.variant = "single" THEN w <= SHOULD_STACK_SIZE ELSE w < STACK_WIDTH)

\* The container is resized to w px and measured.
Resize(w) ==
  /\ NoTimerDue
  /\ w \in Widths
  /\ w # width
  /\ Step(measure(Start("Resize", << >>), w))

\* The host passes a new items array in which one series was removed.
HostRemove(id) ==
  /\ NoTimerDue
  /\ \E k \in 1..Len(items) : items[k].id = id
  /\ Step([Start("HostRemove", <<id>>) EXCEPT
             !.items = SelectSeq(@, LAMBDA it : it.id # id),
             !.dirty = TRUE, !.itemsChanged = TRUE])

\* The host passes a new items array in which one series of the catalogue is back.
HostAdd(id) ==
  /\ NoTimerDue
  /\ id \in ItemIds
  /\ \A k \in 1..Len(items) : items[k].id # id
  /\ LET present == {items[k].id : k \in 1..Len(items)} \cup {id}
         old(x) == items[CHOOSE k \in 1..Len(items) : items[k].id = x]
         full == [k \in 1..MaxItems |->
                    IF IdNames[k] = id THEN CatalogueItem(k)
                    ELSE IF IdNames[k] \in present THEN old(IdNames[k])
                    ELSE CatalogueItem(k)]
     IN Step([Start("HostAdd", <<id>>) EXCEPT
                !.items = SelectSeq(full, LAMBDA it : it.id \in present),
                !.dirty = TRUE, !.itemsChanged = TRUE])

\* The host makes visible exactly the items whose id is in the list ids.
applyVisibility(its, ids) ==
  [k \in 1..Len(its) |-> [its[k] EXCEPT !.visible = Includes(ids, its[k].id)]]

\* The host applies the list of the last onItemVisibilityChange notification.
HostApplyVisibility ==
  /\ NoTimerDue
  /\ \E k \in 1..Len(trace) : trace[k].ev = "onItemVisibilityChange"
  /\ LET ids == trace[CHOOSE k \in 1..Len(trace) : trace[k].ev = "onItemVisibilityChange"].arg
     IN Step([Start("HostApplyVisibility", << >>) EXCEPT
                !.items = applyVisibility(items, ids),
                !.dirty = TRUE, !.itemsChanged = TRUE])

\* The host highlights the series h and no other, or none (h = Null).
HostHighlight(h) ==
  /\ NoTimerDue
  /\ h = Null \/ \E k \in 1..Len(items) : items[k].id = h
  /\ \E k \in 1..Len(items) : items[k].highlighted # (items[k].id = h)
  /\ Step([Start("HostHighlight", <<h>>) EXCEPT
             !.items = [k \in 1..Len(items) |->
                          [items[k] EXCEPT !.highlighted = (items[k].id = h)]],
             !.dirty = TRUE, !.itemsChanged = TRUE])

\* ----------------------------------------------------------- specifications
Elements == Buttons \cup {NoElem, TipElem}

\* Both implementations in their one-toolbar and two-toolbar shapes.
Variants == {"grouped", "single"}
MountedAs(v, its) ==
  IF v = "grouped" THEN Mounted("grouped", "dual", "bottom", its)
  ELSE Mounted("single", "bottom", "bottom", its)

(* Visibility: activations of the buttons and a host that applies the      *)
(* notified lists and changes the set of series.                           *)
InitVisibility == \E v \in Variants : InitFrom(MountedAs(v, AllItems))

NextVisibility ==
  \/ \E e \in Buttons, m \in BOOLEAN : Click(e, m)
  \/ HostApplyVisibility
  \/ \E id \in ItemIds : HostRemove(id)
  \/ \E id \in ItemIds : HostAdd(id)

SpecVisibility == InitVisibility /\ [][NextVisibility]_vars

(* Activation: activations of the buttons of a fixed set of series, with a *)
(* host that applies the notified lists and highlights series.             *)
InitActivation == \E v \in Variants : InitFrom(MountedAs(v, AllItems))

NextActivation ==
  \/ \E e \in Buttons, m \in BOOLEAN : Click(e, m)
  \/ HostApplyVisibility
  \/ \E h \in ItemIds \cup {Null} : HostHighlight(h)

SpecActivation == InitActivation /\ [][NextActivation]_vars

(* Tooltip and highlight: pointer, focus, keys and the clock over a fixed  *)
(* list in which the second series is hidden.                              *)
TooltipItems == [k \in 1..MaxItems |-> [CatalogueItem(k) EXCEPT !.visible = (k # 2)]]

InitTooltip == \E v \in Variants : InitFrom(MountedAs(v, TooltipItems))

NextTooltip ==
  \/ \E e \in Elements : UserFocus(e)
  \/ \E e \in Elements : PointerMove(e)
  \/ \E key \in Keys : KeyDown(key)
  \/ \E t \in timers, v \in BOOLEAN : FireTimer(t, v)
  \/ Tick

SpecTooltip == InitTooltip /\ [][NextTooltip]_vars

(* Debounce: the pointer, the clock and a host that highlights series, so  *)
(* that the three DebouncedCall instances receive calls at every distance  *)
(* in time.  No key is pressed: no instance is ever locked.  The legend   *)
(* has one toolbar, so one scroll-into-view instance is in use.            *)
InitDebounce ==
  \E v \in Variants : InitFrom(Mounted(v, IF v = "grouped" THEN "single" ELSE "bottom",
                                       "bottom", TooltipItems))

NextDebounce ==
  \/ \E e \in Elements : PointerMove(e)
  \/ \E h \in ItemIds \cup {Null} : HostHighlight(h)
  \/ \E t \in timers, v \in BOOLEAN : FireTimer(t, v)
  \/ Tick

SpecDebounce == InitDebounce /\ [][NextDebounce]_vars

(* Layout: the container is resized and the host changes the set of       *)
(* series, for every type and position the two implementations take; the  *)
(* pointer shows tooltips.  The clock stands still.                       *)
SingleTypes == {"bottom", "stacked", "stacked-top", "stacked-bottom", "bottom-left", "bottom-right"}
LegendPositions == {"bottom", "side"}

InitLayout ==
  \/ \E pos \in LegendPositions : InitFrom(Mounted("grouped", "dual", pos, AllItems))
  \/ \E ty \in SingleTypes : InitFrom(Mounted("single", ty, "bottom", AllItems))

NextLayout ==
  \/ \E w \in Widths : Resize(w)
  \/ \E id \in ItemIds : HostRemove(id)
  \/ \E id \in ItemIds : HostAdd(id)
  \/ \E e \in Elements : PointerMove(e)
  \/ \E t \in timers, v \in BOOLEAN : FireTimer(t, v)

SpecLayout == InitLayout /\ [][NextLayout]_vars

(* Teardown: the container is resized between its narrowest and widest   *)
(* width, which remounts the groups of a bottom legend with two groups,   *)
(* while the host highlights series and the clock runs.  The next resize *)
(* comes after the timers of the groups removed by the last one have run. *)
InitTeardown == \E v \in Variants : InitFrom(MountedAs(v, AllItems))

NextTeardown ==
  \/ \E w \in {NarrowestWidth, WidestWidth} : (\A t \in timers : t.ref) /\ Resize(w)
  \/ \E h \in ItemIds \cup {Null} : HostHighlight(h)
  \/ \E t \in timers, v \in BOOLEAN : FireTimer(t, v)
  \/ Tick

SpecTeardown == InitTeardown /\ [][NextTeardown]_vars

(* Scrolling: a legend with two toolbars in a column (index.tsx, position  *)
(* "side") or one toolbar (part_000), a host that highlights series, the   *)
(* pointer and the clock.                                                  *)
InitScroll ==
  \/ InitFrom(Mounted("grouped", "dual", "side", AllItems))
  \/ InitFrom(Mounted("single", "bottom", "bottom", AllItems))

NextScroll ==
  \/ \E e \in Buttons \cup {NoElem} : PointerMove(e)
  \/ \E h \in ItemIds \cup {Null} : HostHighlight(h)
  \/ \E t \in timers, v \in BOOLEAN : FireTimer(t, v)
  \/ Tick

SpecScroll == InitScroll /\ [][NextScroll]_vars

(* Groups: the legend of index.tsx with its two toolbars, in a row and in  *)
(* a column, with either axis holding the larger share of the series;      *)
(* focus, keys and a host that highlights series.  The clock stands still. *)
FlippedItems == [k \in 1..MaxItems |-> [CatalogueItem(k) EXCEPT !.oppositeAxis = (k % 2 = 1)]]

InitGroups ==
  \E pos \in LegendPositions, its \in {AllItems, FlippedItems} :
    InitFrom(Mounted("grouped", "dual", pos, its))

NextGroups ==
  \/ \E e \in Elements : UserFocus(e)
  \/ \E key \in Keys : KeyDown(key)
  \/ \E t \in timers, v \in BOOLEAN : FireTimer(t, v)
  \/ \E h \in ItemIds \cup {Null} : HostHighlight(h)

SpecGroups == InitGroups /\ [][NextGroups]_vars

(* Navigation: focus and keys, with a host that highlights series and      *)
(* changes the set of series.  The clock stands still: the timers of       *)
(* delay 0 run, the others stay pending.                                   *)
InitNavigation ==
  \E v \in Variants : InitFrom(Mounted(v, IF v = "grouped" THEN "single" ELSE "bottom",
                                       "bottom", AllItems))

NextNavigation ==
  \/ \E e \in Elements : UserFocus(e)
  \/ \E key \in Keys : KeyDown(key)
  \/ \E t \in timers, v \in BOOLEAN : FireTimer(t, v)
  \/ \E id \in ItemIds : HostRemove(id)
  \/ \E id \in ItemIds : HostAdd(id)
  \/ \E h \in ItemIds \cup {Null} : HostHighlight(h)

SpecNavigation == InitNavigation /\ [][NextNavigation]_vars

\* ================================================================ claims
\* What the last step emitted to the host, in order.
Emitted(ev) == SelectSeq(trace, LAMBDA x : x.ev = ev)
Requested(ev) == \E k \in 1..Len(trace) : trace[k].ev = ev
Event == trace[1]
SeqToSet(q) == {q[k] : k \in 1..Len(q)}
UniqueIds == \A j, k \in 1..Len(items) : items[j].id = items[k].id => j = k
VisibleSet == {items[k].id : k \in {k \in 1..Len(items) : items[k].visible}}

(* C1. Select: activating item X without a modifier emits                  *)
(* onItemVisibilityChange exactly once, with the ids of all items in item  *)
(* order when X is the only visible item, and with [X] in every other      *)
(* state.                                                                  *)
C1_Select ==
  (Event.ev = "Click" /\ Event.arg[2] = "plain" /\ UniqueIds) =>
    LET X == Event.arg[1]
        out == Emitted("onItemVisibilityChange")
    IN /\ Len(out) = 1
       /\ out[1].arg = IF VisibleSet = {X}
                       THEN [k \in 1..Len(items) |-> items[k].id]
                       ELSE <<X>>

\* X was the only visible item of several and the select reset to all items.
C1_Witness ==
  /\ Event.ev = "Click" /\ Event.arg[2] = "plain"
  /\ Len(items) >= 2
  /\ VisibleSet = {Event.arg[1]}
  /\ Len(Emitted("onItemVisibilityChange")[1].arg) = Len(items)

(* C2. Toggle: activating item X with meta or ctrl emits                   *)
(* onItemVisibilityChange exactly once with a list whose set of ids is the *)
(* visible set without X when X is visible and the visible set plus X when *)
(* it is not; the membership of every other id is unchanged.               *)
C2_Toggle ==
  (Event.ev = "Click" /\ Event.arg[2] = "meta") =>
    LET X == Event.arg[1]
        out == Emitted("onItemVisibilityChange")
    IN /\ Len(out) = 1
       /\ SeqToSet(out[1].arg) = IF X \in VisibleSet THEN VisibleSet \ {X}
                                 ELSE VisibleSet \cup {X}
       /\ \A id \in ItemIds \ {X} : (id \in SeqToSet(out[1].arg)) <=> (id \in VisibleSet)

\* A hidden X was toggled in while other items were visible.
C2_Witness ==
  /\ Event.ev = "Click" /\ Event.arg[2] = "meta"
  /\ Event.arg[1] \notin VisibleSet
  /\ VisibleSet # {}
  /\ SeqToSet(Emitted("onItemVisibilityChange")[1].arg) = VisibleSet \cup {Event.arg[1]}

(* C3. At most one tooltip per legend: after any sequence of hover, focus, *)
(* blur, key and timer events on the items of both groups, tooltipItemId   *)
(* is null or one item id, and the tooltips in the DOM are at most the one *)
(* of that item.                                                           *)
C3_OneTooltip ==
  /\ tooltipItemId \in ItemIds \cup {Null}
  /\ Cardinality(RenderedTooltips(Cur)) <= 1
  /\ RenderedTooltips(Cur) \subseteq {tooltipItemId}

\* The tooltip of an item of the opposite group is shown while focus is on
\* an item of the default group.
C3_Witness ==
  /\ variant = "grouped"
  /\ RenderedTooltips(Cur) # {}
  /\ elementsById(Cur, tooltipItemId).g = "opposite"
  /\ focus.kind = "item" /\ focus.g = "default"

\* The tooltip control's pending hide that is due no later than its lock.
LockedHide ==
  \E t \in Pending(Cur, "tooltip") : t.act = "hide" /\ t.due <= lockDue["tooltip"]

(* C4. Escape-to-dismiss: when Escape is pressed while the tooltip of item *)
(* T is shown, a hide is pending that is due within TOOLTIP_BLUR_DELAY and *)
(* no later than the lock; whatever hover or focus events follow, that     *)
(* hide stays pending until it runs and sets tooltipItemId to null; and    *)
(* the Escape moves keyboard focus to the element registered for T.        *)
C4_EscapeDismiss ==
  [][/\ (trace'[1] = [ev |-> "KeyDown", arg |-> <<"Escape">>] /\ tooltipItemId # Null) =>
          /\ lockDue'["tooltip"] = TOOLTIP_BLUR_DELAY
          /\ LockedHide'
          /\ tooltipItemId' = tooltipItemId
          /\ elementsById(Cur, tooltipItemId) # NoElem =>
               focus' = elementsById(Cur, tooltipItemId)
     /\ LockedHide => (LockedHide' \/ tooltipItemId' = Null)]_vars

\* Escape has just been pressed with a tooltip shown, and focus went from
\* elsewhere to the tooltip's item.
C4_Witness ==
  /\ Event = [ev |-> "KeyDown", arg |-> <<"Escape">>]
  /\ tooltipItemId # Null
  /\ lockDue["tooltip"] = TOOLTIP_BLUR_DELAY
  /\ Requested("focus")
  /\ focus = elementsById(Cur, tooltipItemId)

(* C5. Lock preempts show: a tooltip show request issued while the tooltip *)
(* control is locked (after an Escape-triggered hide, the focus return of  *)
(* the Escape handler included) neither sets tooltipItemId nor changes the *)
(* pending hide.                                                           *)
ShowAfterLock(tr) ==
  \E j, k \in 1..Len(tr) : j < k /\ tr[j].ev = "hideTooltipLocked" /\ tr[k].ev = "showTooltip"

C5_LockPreemptsShow ==
  [][/\ (lockDue["tooltip"] > 0 /\ \E k \in 1..Len(trace') : trace'[k].ev = "showTooltip") =>
          /\ tooltipItemId' = tooltipItemId
          /\ {t \in timers' : t.ctl = "tooltip"} = {t \in timers : t.ctl = "tooltip"}
     /\ ShowAfterLock(trace') =>
          /\ tooltipItemId' = tooltipItemId
          /\ \A t \in timers' : t.ctl = "tooltip" => t.act = "hide"
          /\ LockedHide']_vars

\* A hover show for another item arrived inside the lock window and the
\* hide is still pending.
C5_Witness ==
  /\ Event.ev = "PointerMove"
  /\ Requested("showTooltip")
  /\ lockDue["tooltip"] > 0
  /\ LockedHide
  /\ tooltipItemId \notin {Null, Event.arg[1]}

\* The last entry of the trace tr whose event is in evs, or Null.
LastOf(tr, evs) ==
  LET ks == {k \in 1..Len(tr) : tr[k].ev \in evs}
  IN IF ks = {} THEN Null ELSE tr[CHOOSE k \in ks : \A j \in ks : j <= k].ev

\* The first highlighted item of group g, as the closure of its scroll.
ScrollClosure(g) ==
  LET h == FindIndex(GroupItems(Cur, g), LAMBDA it : it.highlighted)
  IN Closure("scroll", GroupItems(Cur, g)[h + 1].id, h)

(* C6. Last call wins: each DebouncedCall instance (highlight exit,        *)
(* tooltip transition, scroll-into-view) has at most one pending action at *)
(* any time, and after a step that issues calls on an instance the pending *)
(* action is the one of the last call, with its full delay: the action of  *)
(* a call issued earlier, whose delay had not elapsed, is gone and never   *)
(* runs.                                                                   *)
C6_LastCallWins ==
  [][/\ \A c \in Controls : Cardinality(Pending(Cur, c)') <= 1
     /\ LastOf(trace', {"clearHighlight", "onItemHighlightEnter"}) = "clearHighlight" =>
          Pending(Cur, "highlight")' =
            {Timer("highlight", Closure("exit", Null, 0), HIGHLIGHT_LOST_DELAY)}
     /\ LastOf(trace', {"showTooltip", "hideTooltip"}) = "hideTooltip" =>
          Pending(Cur, "tooltip")' =
            {Timer("tooltip", Closure("hide", Null, 0), TOOLTIP_BLUR_DELAY)}
     /\ LastOf(trace', {"showTooltip", "hideTooltip"}) = "showTooltip" =>
          \E id \in ItemIds :
            Pending(Cur, "tooltip")' = {Timer("tooltip", Closure("show", id, 0), 0)}
     /\ trace'[1].ev = "HostHighlight" =>
          \A g \in RenderedGroups(Cur)' :
            (\E k \in 1..Len(GroupItems(Cur, g)') : GroupItems(Cur, g)'[k].highlighted) =>
               Pending(Cur, ScrollControl(g))' =
                 {Timer(ScrollControl(g), ScrollClosure(g)', SCROLL_DELAY)}]_vars

\* The pointer came back onto a hidden item before the delay of the hide
\* had elapsed: the exit of the same instant is still pending, the hide has
\* given way to the show.
C6_Witness ==
  /\ Event.ev = "PointerMove"
  /\ Requested("showTooltip")
  /\ \E t \in Pending(Cur, "highlight") : t.due > 0 /\ t.due < HIGHLIGHT_LOST_DELAY
  /\ \A t \in Pending(Cur, "tooltip") : t.act = "show"
  /\ Pending(Cur, "tooltip") # {}

\* The index of the highlighted item of group g, or -1.
HighlightedIndex(g) == FindIndex(GroupItems(Cur, g), LAMBDA it : it.highlighted)

\* The buttons of group g that are the tab stop.
TabStops(g) == {i \in 0..(Len(GroupItems(Cur, g)) - 1) : TabIndex(g, i) = 0}

\* Group g has exactly one tab stop: its highlighted item, else its first.
TabStopRule(g) ==
  /\ Cardinality(TabStops(g)) = 1
  /\ TabStops(g) = {IF HighlightedIndex(g) >= 0 THEN HighlightedIndex(g) ELSE 0}

(* C7. Tab stop in the grouped variant: after every render of a group with *)
(* a non-empty item list exactly one item of the group has tabindex 0, and *)
(* it is the highlighted item when the group has one, otherwise the first. *)
C7_TabStopGrouped ==
  variant = "grouped" =>
    \A g \in RenderedGroups(Cur) : Len(GroupItems(Cur, g)) > 0 => TabStopRule(g)

\* The tab stop is a highlighted item that is not the first, while the
\* item focused last is another one.
C7_Witness ==
  /\ variant = "grouped"
  /\ HighlightedIndex("default") >= 1
  /\ TabStops("default") = {HighlightedIndex("default")}
  /\ selectedIndex["default"] # HighlightedIndex("default")

(* C8. Tab stop in the single-toolbar variant: for every non-empty         *)
(* displayed item list, after any focus events, highlight changes and      *)
(* item-list changes, exactly one item is the tab stop: the highlighted    *)
(* item if any, else the first.                                            *)
C8_TabStopSingle ==
  variant = "single" =>
    \A g \in RenderedGroups(Cur) : Len(GroupItems(Cur, g)) > 0 => TabStopRule(g)

\* The index a navigation key leads to from index i in a group of n items.
KeyTarget(key, i, n) ==
  CASE key \in {"ArrowRight", "ArrowDown"} -> (i + 1) % n
    [] key \in {"ArrowLeft", "ArrowUp"} -> (i - 1 + n) % n
    [] key = "Home" -> 0
    [] key = "End" -> n - 1

(* C9. Circular navigation: in a group of n >= 1 items with selected index *)
(* i, ArrowRight and ArrowDown move focus to (i+1) mod n, ArrowLeft and    *)
(* ArrowUp to (i-1) mod n, Home to 0 and End to n-1.                       *)
C9_CircularNavigation ==
  [][\A key \in NavKeys \ {"Escape"} :
       LET g == focus.g
           n == Len(GroupItems(Cur, g))
           i == selectedIndex[g]
       IN (/\ trace'[1] = [ev |-> "KeyDown", arg |-> <<key>>]
           /\ focus.kind = "item"
           /\ n >= 1
           /\ i \in 0..(n - 1)
           /\ elementsByIndex(Cur, g) = 0..(n - 1)) =>
            /\ focus' = ItemElem(g, KeyTarget(key, i, n))
            /\ selectedIndex'[g] = KeyTarget(key, i, n)]_vars

\* ArrowLeft has just moved focus to the last item of a group of two or
\* more: it came from the first.
C9_Witness ==
  /\ Event = [ev |-> "KeyDown", arg |-> <<"ArrowLeft">>]
  /\ Requested("focus")
  /\ focus.kind = "item"
  /\ Len(GroupItems(Cur, focus.g)) >= 2
  /\ focus.i = Len(GroupItems(Cur, focus.g)) - 1

(* C10. Selected index stays in range: after any focus events, key presses *)
(* and item-list changes by the host, the selected index of a group whose  *)
(* list is non-empty is within [0, length-1] of the displayed list.        *)
C10_SelectedIndexInRange ==
  \A g \in RenderedGroups(Cur) :
    Len(GroupItems(Cur, g)) > 0 => selectedIndex[g] \in 0..(Len(GroupItems(Cur, g)) - 1)

\* The trace tr holds a request ev.
Has(tr, ev) == \E k \in 1..Len(tr) : tr[k].ev = ev

(* C11. Leave and blur clear: when the pointer leaves an item or an item   *)
(* loses keyboard focus, the legend requests the debounced                 *)
(* onItemHighlightExit and the debounced tooltip hide; the only exception  *)
(* is a blur whose focus destination lies inside the tooltip, for which    *)
(* neither is requested.  A blur towards another item, an element outside  *)
(* the legend, or no element requests both.                                *)
C11_LeaveBlurClear ==
  [][/\ (trace'[1].ev = "PointerMove" /\ pointer.kind = "item") =>
          (Has(trace', "clearHighlight") /\ Has(trace', "hideTooltip"))
     /\ (trace'[1].ev = "UserFocus" /\ focus.kind = "item" /\ focus' # TipElem) =>
          (Has(trace', "clearHighlight") /\ Has(trace', "hideTooltip"))
     /\ (trace'[1].ev = "UserFocus" /\ focus.kind = "item" /\ focus' = TipElem) =>
          (~Has(trace', "clearHighlight") /\ ~Has(trace', "hideTooltip"))]_vars

\* The item X is in the list with visible = true.
IsVisible(X) == \E k \in 1..Len(items) : items[k].id = X /\ items[k].visible

\* The trace tr holds the request [ev, <<X>>] after position k.
HasAfter(tr, k, ev, X) == \E j \in (k + 1)..Len(tr) : tr[j] = [ev |-> ev, arg |-> <<X>>]

\* The positions of the trace tr at which the pointer entered an item or
\* focus landed on an item.
Arrivals(tr) ==
  {k \in 1..Len(tr) :
     /\ Len(tr[k].arg) = 1
     /\ tr[k].arg[1] \in ItemIds
     /\ \/ k = 1 /\ tr[k].ev \in {"PointerMove", "UserFocus"}
        \/ tr[k].ev = "focus"}

(* C12. Enter and focus show: the pointer entering item X or keyboard      *)
(* focus landing on X always issues a tooltip show request for X, and      *)
(* emits onItemHighlightEnter(X) if and only if X is in the list with      *)
(* visible = true; for a hidden X no highlight notification is emitted and *)
(* a pending highlight exit stays pending.                                 *)
C12_EnterFocusShow ==
  [][\A k \in Arrivals(trace') :
       LET X == trace'[k].arg[1]
       IN /\ HasAfter(trace', k, "showTooltip", X)
          /\ HasAfter(trace', k, "onItemHighlightEnter", X) <=> IsVisible(X)
          /\ (~IsVisible(X) /\ Len(trace') > 0 /\ trace'[1].arg = <<X>>) =>
               /\ \A j \in 1..Len(trace') : trace'[j].ev # "onItemHighlightEnter"
               /\ (Pending(Cur, "highlight") # {} \/ Has(trace', "clearHighlight")) =>
                    Pending(Cur, "highlight")' # {}]_vars

\* The pointer has entered a hidden item while a highlight exit was
\* pending: the show was requested, no highlight was notified, the exit is
\* still pending.
C12_Witness ==
  /\ Event.ev = "PointerMove"
  /\ Len(Event.arg) = 1 /\ Event.arg[1] \in ItemIds /\ ~IsVisible(Event.arg[1])
  /\ Requested("showTooltip")
  /\ ~Requested("onItemHighlightEnter")
  /\ ~Requested("clearHighlight")
  /\ \E t \in Pending(Cur, "highlight") : t.due < HIGHLIGHT_LOST_DELAY

\* The item under the pointer, or Null.
PointerItem == IF pointer.kind = "item" THEN ItemIdOf(Cur, pointer) ELSE Null

Positions(ev) == {k \in 1..Len(trace) : trace[k].ev = ev}

(* C14. Select and toggle clear the highlight: every select and every      *)
(* toggle activation calls onItemHighlightExit exactly once, in the same   *)
(* task and after the onItemVisibilityChange notification of that          *)
(* activation, with no debounce and whether or not an item is highlighted. *)
C14_ActivationClearsHighlight ==
  Event.ev = "Click" =>
    /\ Cardinality(Positions("onItemHighlightExit")) = 1
    /\ Cardinality(Positions("onItemVisibilityChange")) = 1
    /\ \A j \in Positions("onItemVisibilityChange"), k \in Positions("onItemHighlightExit") :
         j < k
    /\ ~Requested("clearHighlight")

\* A toggle of an item other than the highlighted one has notified the
\* visibility change and then the highlight exit.
C14_Witness ==
  /\ Event.ev = "Click" /\ Event.arg[2] = "meta"
  /\ \E k \in 1..Len(items) : items[k].highlighted /\ items[k].id # Event.arg[1]
  /\ Positions("onItemVisibilityChange") = {2}
  /\ Positions("onItemHighlightExit") = {3}

(* C15. Stacking threshold: a legend that would place the default and the  *)
(* opposite group side by side in a row is stacked exactly when the last   *)
(* measured container width is below 400 px; at 400 px or more it is not   *)
(* force-stacked.                                                          *)
C15_StackingThreshold ==
  IsBottomDual(Cur) => (isStacked(Cur) <=> width < STACK_WIDTH)

\* The two groups of a dual-axis legend: the groups of index.tsx, the lists
\* of the two toolbars (bottom-left, bottom-right) of part_000.
DualGroups ==
  IF variant = "single"
  THEN <<filteredItems([Cur EXCEPT !.type = "bottom-left"]),
         filteredItems([Cur EXCEPT !.type = "bottom-right"])>>
  ELSE <<defaultItems(Cur), oppositeItems(Cur)>>

\* How often the item it occurs in the sequence q.
Count(q, it) == Cardinality({k \in 1..Len(q) : q[k] = it})

\* The sequence q holds the items of the list whose oppositeAxis is flag,
\* each once, in the order of the list.
StableFilter(q, flag) ==
  /\ \A k \in 1..Len(items) :
       Count(q, items[k]) = IF items[k].oppositeAxis = flag THEN 1 ELSE 0
  /\ \A i, j \in 1..Len(q) :
       i < j => \E k, l \in 1..Len(items) : k < l /\ items[k] = q[i] /\ items[l] = q[j]

(* C16. The axis partition is a stable filter: for a dual-axis legend and  *)
(* every item list, each item is in exactly one of the default and the     *)
(* opposite group (opposite iff its oppositeAxis flag is true), the order  *)
(* inside each group is the order of the full list, and a switch of the    *)
(* layout between side-by-side and stacked changes neither.                *)
C16_AxisPartition ==
  /\ [](/\ StableFilter(DualGroups[1], FALSE)
        /\ StableFilter(DualGroups[2], TRUE)
        /\ Len(DualGroups[1]) + Len(DualGroups[2]) = Len(items))
  /\ [][trace'[1].ev = "Resize" => DualGroups' = DualGroups]_vars

\* A resize has just stacked a bottom legend whose default group holds two
\* items that are not neighbours in the list.
C16_Witness ==
  /\ Event.ev = "Resize"
  /\ variant = "grouped" /\ position = "bottom" /\ shouldStack
  /\ Len(defaultItems(Cur)) = 2 /\ Len(oppositeItems(Cur)) = 1
  /\ Len(items) = 3 /\ items[2].oppositeAxis

(* C17. The tooltip position follows the rendered layout: whenever the     *)
(* groups are rendered stacked/side, a bottom legend that was              *)
(* force-stacked for its narrow container included, the position of the    *)
(* rendered tooltip is "left"; in every other state it is "bottom".        *)
C17_TooltipPosition ==
  RenderedTooltips(Cur) # {} =>
    tooltipPosition(Cur) = IF isStacked(Cur) THEN "left" ELSE "bottom"

\* Escape, Home, End and the four arrows.
InterceptedKeys == {"Escape", "Home", "End", "ArrowLeft", "ArrowRight", "ArrowUp", "ArrowDown"}

(* C18. Only navigation keys are intercepted: a key press on a legend item *)
(* has its default action prevented if and only if the key is Escape,      *)
(* Home, End or one of the four arrows; for every other key the legend     *)
(* prevents nothing, moves no focus, changes no legend state and emits no  *)
(* notification.                                                           *)
C18_OnlyNavigationKeys ==
  [][(trace'[1].ev = "KeyDown" /\ focus.kind = "item") =>
       /\ Has(trace', "preventDefault") <=> trace'[1].arg[1] \in InterceptedKeys
       /\ trace'[1].arg[1] \notin InterceptedKeys =>
            /\ Len(trace') = 1
            /\ UNCHANGED <<variant, type, position, items, shouldStack, width,
                           tooltipItemId, timers, lockDue, selectedIndex, focusTarget,
                           focus, pointer>>]_vars

\* Enter has just been pressed on an item whose tooltip is shown: the trace
\* holds nothing but the key press.
C18_Witness ==
  /\ Event = [ev |-> "KeyDown", arg |-> <<"Enter">>]
  /\ focus.kind = "item"
  /\ tooltipItemId = ItemIdOf(Cur, focus)
  /\ Len(trace) = 1

(* C19. Teardown cancels timers: when a group is removed (the remount of   *)
(* the groups by a layout switch included), every debounce timer it owns   *)
(* that is still pending is cancelled, so that no timer of a removed group *)
(* is left and none of them scrolls after the removal.                     *)
C19_TeardownCancelsTimers ==
  [][/\ \A t \in timers' : t.ref
     /\ \A t \in timers : (trace'[1].ev = "Timer" /\ t \notin timers' /\ ~t.ref) =>
          ~Has(trace', "scrollTo")]_vars
\* C20: a tooltip is rendered exactly when tooltipItemId is the id of an item
\* of the current list and the resolver returns content for that item; moving
\* the pointer onto a visible item without content still notifies the host of
\* the highlight.
InList(id) == \E k \in 1..Len(LookupItems(Cur)) : LookupItems(Cur)[k].id = id
C20_TooltipRendered ==
  /\ [](/\ (RenderedTooltips(Cur) # {}) <=>
            (InList(tooltipItemId) /\ getTooltipContent(tooltipItemId) # Null)
        /\ RenderedTooltips(Cur) \subseteq {tooltipItemId})
  /\ [][\A id \in NoContentIds :
          (/\ trace'[1].ev = "PointerMove"
           /\ pointer'.kind = "item"
           /\ ItemIdOf(Cur', pointer') = id
           /\ pointer # pointer'
           /\ IsVisible(id)) =>
            HasAfter(trace', 1, "onItemHighlightEnter", id)]_vars
C20_Witness ==
  /\ tooltipItemId \in NoContentIds
  /\ InList(tooltipItemId)
  /\ RenderedTooltips(Cur) = {}
  /\ Has(trace, "onItemHighlightEnter")
C20_WitnessRemoved ==
  /\ tooltipItemId # Null
  /\ ~InList(tooltipItemId)
  /\ RenderedTooltips(Cur) = {}


\* The scroll timers that ran in the step.
FiredScroll == {t \in timers \ timers' : t.act = "scroll"}

\* The legend rendered in the step: a prop or a state of it changed.
Rendered ==
  \/ items' # items
  \/ tooltipItemId' # tooltipItemId
  \/ selectedIndex' # selectedIndex
  \/ shouldStack' # shouldStack

(* C21. Scroll-into-view guard: the container is scrolled only by the      *)
(* scroll timer of a group, only while the pointer is not inside the       *)
(* container that is scrolled; a render in which an item of the group is   *)
(* highlighted leaves the group's scroll pending with the full 100 ms      *)
(* ahead; at most one scroll is pending per group.                         *)
C21_ScrollGuard ==
  [][/\ Has(trace', "scrollTo") =>
          /\ trace'[1].ev = "Timer"
          /\ \A t \in FiredScroll :
                ~IsInside(pointer, scrollableContainer(Cur, TimerGroup(t)))
     /\ \A g \in GroupNames :
          /\ Cardinality({t \in timers' : t.ctl = ScrollControl(g)}) <= 1
          /\ (Rendered /\ g \in RenderedGroups(Cur)' /\ HighlightedIndex(g)' >= 0) =>
               \A t \in timers' : t.ctl = ScrollControl(g) => t.due = SCROLL_DELAY]_vars


\* The step is a render caused by the host alone.
HostStep == trace'[1].ev \in {"HostRemove", "HostAdd", "HostHighlight"}

\* The legend moved keyboard focus in the step.
FocusMoved == Has(trace', "focus")

OtherGroup(g) == IF g = "default" THEN "opposite" ELSE "default"

(* C23. Independent groups: each rendered group of a dual-axis legend has  *)
(* one tab stop of its own; an arrow, Home or End key pressed on a button  *)
(* of one group moves focus to the button of that group the key           *)
(* designates, wrapping inside the group, and leaves the selected index    *)
(* and the tab stop of the other group as they were.                       *)
C23_IndependentGroups ==
  /\ [](\A g \in RenderedGroups(Cur) : Cardinality(TabStops(g)) = 1)
  /\ [][\A key \in NavKeys \ {"Escape"}, e \in Buttons :
          (trace'[1] = [ev |-> "KeyDown", arg |-> <<key>>] /\ e = focus) =>
            LET n == Len(GroupItems(Cur, e.g))
                o == OtherGroup(e.g)
            IN /\ focus' = ItemElem(e.g, KeyTarget(key, selectedIndex[e.g], n))
               /\ selectedIndex'[o] = selectedIndex[o]
               /\ focusTarget'[o] = focusTarget[o]]_vars

\* ArrowRight on the last button of a group of two or more has wrapped to
\* its first button while the other group is rendered with its tab stop.
C23_Witness ==
  /\ Event = [ev |-> "KeyDown", arg |-> <<"ArrowRight">>]
  /\ Requested("focus")
  /\ focus.kind = "item"
  /\ focus.i = 0
  /\ Len(GroupItems(Cur, focus.g)) >= 2
  /\ OtherGroup(focus.g) \in RenderedGroups(Cur)
  /\ focusTarget[OtherGroup(focus.g)] = 0


(* C24. Width affects only dual bottom layouts in index.tsx: a measurement *)
(* changes the rendered layout of the grouped legend exactly when it       *)
(* changes shouldStack while position is "bottom" and the opposite group   *)
(* is non-empty; in part_000 a measurement below the threshold stacks the  *)
(* legend whatever its type.                                               *)
C24_WidthAffectsDualBottom ==
  [][trace'[1].ev = "Resize" =>
       /\ variant = "grouped" =>
            (Layout(Cur)' # Layout(Cur)) <=>
              (shouldStack' # shouldStack /\ position = "bottom" /\ oppositeItems(Cur) # << >>)
       /\ (variant = "single" /\ width' < SHOULD_STACK_SIZE) =>
            Layout(Cur)' = [g \in {"default"} |-> "side"]]_vars

\* A bottom legend whose opposite group is empty was measured narrow and
\* kept its one group in position "bottom".
C24_Witness ==
  /\ trace[1].ev = "Resize"
  /\ variant = "grouped"
  /\ position = "bottom"
  /\ shouldStack
  /\ Layout(Cur) = [g \in {"default"} |-> "bottom"]


\* The request ev comes before the request ev2 in the trace tr.
Before(tr, ev, ev2) ==
  \E j, k \in 1..Len(tr) : j < k /\ tr[j].ev = ev /\ tr[k].ev = ev2

\* Escape was pressed on the focused button e.
EscapeOn(e) == trace'[1] = [ev |-> "KeyDown", arg |-> <<"Escape">>] /\ e = focus

C26_NoCandidateNoTabStop ==
  /\ \A g \in GroupNames : Len(GroupItems(Cur, g)) = 0 =>
       /\ getNextFocusTarget(Cur, g) = -1
       /\ focusTarget[g] = -1
       /\ TabStops(g) = {}
       /\ \A key \in NavKeys :
            /\ onKeyDown(Cur, g, key).focus = focus
            /\ onKeyDown(Cur, g, key).selectedIndex = selectedIndex
            /\ ~Has(onKeyDown(Cur, g, key).trace, "focus")
  /\ Len(items) = 0 => CoreLegend(Cur) = {}

\* The host has removed every series and a key was pressed.
C26_Witness ==
  /\ Len(items) = 0
  /\ trace[1].ev = "KeyDown"
  /\ "default" \in RenderedGroups(Cur)
  /\ focusTarget["default"] = -1


\* No button is registered for the item whose tooltip is shown.
TooltipElementMissing == tooltipItemId # Null /\ elementsById(Cur, tooltipItemId) = NoElem

(* C27. Missing element is skipped silently: focusing an index for which  *)
(* no button is registered changes nothing; Escape pressed while no       *)
(* button is registered for tooltipItemId moves no focus, leaves the      *)
(* selected indices alone and still requests the locked tooltip hide,     *)
(* which is pending afterwards.                                            *)
C27_MissingElementSkipped ==
  /\ [](\A g \in GroupNames, index \in -1..MaxItems :
          index \notin elementsByIndex(Cur, g) => focusElement(Cur, g, index) = Cur)
  /\ [][(trace'[1] = [ev |-> "KeyDown", arg |-> <<"Escape">>] /\ TooltipElementMissing) =>
          /\ focus' = focus
          /\ selectedIndex' = selectedIndex
          /\ ~Has(trace', "focus")
          /\ Has(trace', "hideTooltipLocked")
          /\ lockDue'["tooltip"] = TOOLTIP_BLUR_DELAY
          /\ \E t \in timers' : t.ctl = "tooltip" /\ t.act = "hide" /\ t.ref]_vars

\* Escape was pressed on a focused button while tooltipItemId named an
\* item the host had removed: the hide is pending, focus stayed.
C27_Witness ==
  /\ Event = [ev |-> "KeyDown", arg |-> <<"Escape">>]
  /\ TooltipElementMissing
  /\ focus.kind = "item"
  /\ Has(trace, "hideTooltipLocked")
  /\ ~Has(trace, "focus")


(* C28. Focused item is the tab stop: whenever a legend button holds       *)
(* keyboard focus, after the renders of the task, that button has tabindex  *)
(* 0, whether its item is visible or hidden and whichever item the host    *)
(* marks as highlighted.                                                   *)
C28_FocusedIsTabStop ==
  focus.kind = "item" => TabIndex(focus.g, focus.i) = 0


\* The host marks the item id as highlighted.
IsHighlighted(id) == \E k \in 1..Len(items) : items[k].id = id /\ items[k].highlighted

(* C29. No scroll without a highlight: a scroll targets an item that is   *)
(* highlighted when the scroll runs, and while no item of a group is      *)
(* highlighted no scroll of the group is pending.                          *)
C29_NoScrollWithoutHighlight ==
  /\ [][\A k \in 1..Len(trace') :
          trace'[k].ev = "scrollTo" => IsHighlighted(trace'[k].arg[1])]_vars
  /\ [](\A g \in RenderedGroups(Cur) :
          HighlightedIndex(g) = -1 => Pending(Cur, ScrollControl(g)) = {})


\* index.tsx 110-124, part_000 96-110: the effect installs the document
\* listener while tooltipItemId is set.
ListenerInstalled == tooltipItemId # Null

(* C30. Tooltip id is never dangling: tooltipItemId is null or the id of   *)
(* an item of the displayed list, so the document listener is installed   *)
(* only while the tooltip of an existing item can be shown.               *)
C30_TooltipIdNotDangling ==
  /\ tooltipItemId # Null => InList(tooltipItemId)
  /\ ListenerInstalled => tooltipTarget(Cur) # Null


\* The list onToggleItem emits for item X when the items prop is its.
ToggleList(its, X) == onToggleItem([Cur EXCEPT !.items = its], X).trace[1].arg

VisibleSetOf(its) == {its[k].id : k \in {k \in 1..Len(its) : its[k].visible}}
NoDuplicate(q) == \A j, k \in 1..Len(q) : q[j] = q[k] => j = k

(* C31. Toggle is an involution on the visible set: with a host that       *)
(* applies each emitted list, toggling item X twice in a row gives back   *)
(* the set of visible ids, for every X of the list; neither emitted list  *)
(* holds an id twice or an id that is not in the item list.               *)
C31_ToggleInvolution ==
  \A X \in SeqToSet(MapIds(items)) :
    LET first == ToggleList(items, X)
        once == applyVisibility(items, first)
        second == ToggleList(once, X)
        twice == applyVisibility(once, second)
    IN /\ VisibleSetOf(twice) = VisibleSetOf(items)
       /\ (X \in VisibleSetOf(once)) # (X \in VisibleSetOf(items))
       /\ NoDuplicate(first) /\ NoDuplicate(second)
       /\ SeqToSet(first) \cup SeqToSet(second) \subseteq SeqToSet(MapIds(items))

\* A hidden item was toggled while other items were visible, and the host
\* is about to apply a list of two or more ids.
C31_Witness ==
  /\ Event.ev = "Click" /\ Event.arg[2] = "meta"
  /\ Event.arg[1] \notin VisibleSet
  /\ VisibleSet # {}
  /\ Len(Emitted("onItemVisibilityChange")[1].arg) >= 2
  /\ VisibleSetOf(applyVisibility(items, Emitted("onItemVisibilityChange")[1].arg))
       = VisibleSet \cup {Event.arg[1]}


====
